---- MODULE Spec2Model ----
\* A model of the StarsApplication API gateway (src/main.py): the bearer-token
\* gate, the pass-through routes, the moderate-then-persist create flow and the
\* server-sent-events relay.
EXTENDS Integers, Sequences, FiniteSets, TLC

VARIABLES req, relay, store

vars == <<req, relay, store>>

----------------------------------------------------------------------------
\* Bounds of the model.

\* Number of request slots whose handlers may be in flight at the same time.
MaxReqs == 1
\* Number of stream callers (one relay each).
MaxRelays == 1
\* Longest sequence of lines a backend event stream emits.
MaxLines == 3

Reqs == 1..MaxReqs
Relays == 1..MaxRelays

----------------------------------------------------------------------------
\* Configuration (module state of main.py, read-only after start).

DATABASE_SERVICE_URL == "db"
FILTER_SERVICE_URL == "filter"
SECRET_KEY == "your-secret-key"
ALGORITHM == "HS256"

----------------------------------------------------------------------------
\* Values.

\* A missing dictionary key / a path or body that is not there.
Absent == "<absent>"

\* Subjects a token may carry, and identities a client may write into the body.
Subjects == {"alice", "bob"}
ClientNames == {Absent, "alice", "mallory"}

\* The request body of POST /stars: a dictionary; Username is the identity field.
StarBodies == [Username : ClientNames, message : {"hello"}]
NoBody == [Username |-> Absent, message |-> Absent]

StarIds == {"1", "999"}

\* The Authorization header: scheme and, for Bearer, the token. A token is
\* described by what jwt.decode looks at.
NoToken == [wellformed |-> FALSE, key |-> Absent, alg |-> Absent, exp |-> "none", sub |-> Absent]
MkToken(k, e, s) == [wellformed |-> TRUE, key |-> k, alg |-> ALGORITHM, exp |-> e, sub |-> s]
Tokens ==
    {MkToken(SECRET_KEY, "future", s) : s \in Subjects}
    \cup {MkToken(SECRET_KEY, "none", "alice"),
          MkToken(SECRET_KEY, "past", "alice"),
          MkToken("forged-key", "future", "alice"),
          MkToken(SECRET_KEY, "future", Absent),
          [MkToken(SECRET_KEY, "future", "alice") EXCEPT !.alg = "none"],
          NoToken}
Headers ==
    {[scheme |-> "Bearer", token |-> t] : t \in Tokens}
    \cup {[scheme |-> "none", token |-> NoToken],
          [scheme |-> "Basic", token |-> NoToken]}

\* Backend status codes and body texts. A 200 answer of either backend is a JSON
\* object (their interface); an error answer is any text.
ErrorStatuses == {201, 404, 503}
FilterTexts200 ==
    {"{status:true,message:'ok'}", "{status:false,message:'rejected'}",
     "{message:'no verdict'}", "{status:0,message:'zero'}", "{status:'yes'}"}
DbTexts200 == {"{id:3,message:'hello'}", "{message:'done'}"}
ErrorTexts == {"Star not found", "{error:'unavailable'}"}

FilterResponses ==
    [status : {200}, text : FilterTexts200] \cup [status : ErrorStatuses, text : ErrorTexts]
DbResponses ==
    [status : {200}, text : DbTexts200] \cup [status : ErrorStatuses, text : ErrorTexts]
NoBackendResponse == [status |-> 0, text |-> Absent]

\* resp.json(): the parsed body, or a JSONDecodeError. JSON scalars are kept as
\* their literal text ('..' for strings).
JSONDecodeError == [error |-> "JSONDecodeError"]
json(text) ==
    CASE text = "{status:true,message:'ok'}" -> [status |-> "true", message |-> "'ok'"]
      [] text = "{status:false,message:'rejected'}" -> [status |-> "false", message |-> "'rejected'"]
      [] text = "{message:'no verdict'}" -> [message |-> "'no verdict'"]
      [] text = "{status:0,message:'zero'}" -> [status |-> "0", message |-> "'zero'"]
      [] text = "{status:'yes'}" -> [status |-> "'yes'"]
      [] text = "{id:3,message:'hello'}" -> [id |-> "3", message |-> "'hello'"]
      [] text = "{message:'done'}" -> [message |-> "'done'"]
      [] text = "{error:'unavailable'}" -> [error |-> "'unavailable'"]
      [] OTHER -> JSONDecodeError

\* dict.get(key): the value, or None.
None == "None"
get(d, key) == IF key \in DOMAIN d THEN d[key] ELSE None

\* Mutant of truthy: only an explicit false counts as a rejection.
truthy_unless_false(v) == v # "false"

\* Python truthiness of a parsed JSON scalar.
truthy(v) == v \notin {None, "false", "null", "0", "''"}

\* A backend body as it stands on the wire: a JSON value, or plain text.
plain(text) == [plain |-> text]
wire(text) == IF json(text) = JSONDecodeError THEN plain(text) ELSE json(text)

----------------------------------------------------------------------------
\* Gateway responses.

NoResponse == [status |-> 0, body |-> plain(Absent), challenge |-> FALSE]

\* raise HTTPException(status_code, detail): the framework answers with that
\* status and the JSON object {"detail": detail}.
HTTPException(status_code, detail) ==
    [status |-> status_code, body |-> [detail |-> detail], challenge |-> FALSE]

\* return value: 200 with the value serialised as JSON.
Return(value) == [status |-> 200, body |-> value, challenge |-> FALSE]

\* An exception no handler catches: the framework's 500.
ServerError == [status |-> 500, body |-> plain("Internal Server Error"), challenge |-> FALSE]

\* credentials_exception of get_current_user; oauth2_scheme raises the same
\* status and header when the Authorization header is missing or not Bearer.
credentials_exception ==
    [status |-> 401, body |-> [detail |-> "Could not validate credentials"], challenge |-> TRUE]
not_authenticated ==
    [status |-> 401, body |-> [detail |-> "Not authenticated"], challenge |-> TRUE]

----------------------------------------------------------------------------
\* Token verification.

\* Mutant of jwt_decode: the expiry is not verified.
jwt_decode_no_expiry(token) ==
    IF \/ ~token.wellformed
       \/ token.alg # ALGORITHM
       \/ token.key # SECRET_KEY
    THEN [ok |-> FALSE, sub |-> Absent]
    ELSE [ok |-> TRUE, sub |-> token.sub]

\* jwt.decode(token, SECRET_KEY, algorithms=[ALGORITHM]): the claims, or JWTError
\* for a malformed token, an algorithm that is not allowed, a signature made with
\* another key, or an expiry in the past.
JWTError == [ok |-> FALSE, sub |-> Absent]
jwt_decode(token) ==
    IF \/ ~token.wellformed
       \/ token.alg # ALGORITHM
       \/ token.key # SECRET_KEY
       \/ token.exp = "past"
    THEN JWTError
    ELSE [ok |-> TRUE, sub |-> token.sub]

\* Mutant of get_current_user: a token without a subject is let through.
get_current_user_any_sub(header) ==
    IF header.scheme # "Bearer"
    THEN [ok |-> FALSE, email |-> None, error |-> not_authenticated]
    ELSE LET payload == jwt_decode(header.token)
             email == IF payload.sub = Absent THEN None ELSE payload.sub
         IN  IF ~payload.ok
             THEN [ok |-> FALSE, email |-> None, error |-> credentials_exception]
             ELSE [ok |-> TRUE, email |-> email, error |-> NoResponse]

\* oauth2_scheme followed by get_current_user: the caller's identity, or the 401
\* that is raised. Nothing here calls a backend.
get_current_user(header) ==
    IF header.scheme # "Bearer"
    THEN [ok |-> FALSE, email |-> None, error |-> not_authenticated]
    ELSE LET payload == jwt_decode(header.token)
             email == IF payload.sub = Absent THEN None ELSE payload.sub
         IN  IF ~payload.ok \/ email = None
             THEN [ok |-> FALSE, email |-> None, error |-> credentials_exception]
             ELSE [ok |-> TRUE, email |-> email, error |-> NoResponse]

----------------------------------------------------------------------------
\* Routes.

PublicRoutes == {"get_stars", "get_star"}
ProtectedRoutes ==
    {"create_star", "delete_star", "delete_all_stars", "like_star", "dislike_star"}
Routes == PublicRoutes \cup ProtectedRoutes
PassThroughRoutes == Routes \ {"create_star"}
IdRoutes == {"get_star", "delete_star", "like_star", "dislike_star"}

\* The one backend call of a pass-through route.
Call(svc, method, path, payload) ==
    [svc |-> svc, method |-> method, path |-> path, payload |-> payload]
\* Mutant of RouteCall: the lookup of one star is sent as a DELETE.
RouteCall_get_deletes(route, star_id) ==
    IF route = "get_star"
    THEN Call(DATABASE_SERVICE_URL, "DELETE", "/stars/" \o star_id, NoBody)
    ELSE Call(DATABASE_SERVICE_URL, "GET", "/stars/", NoBody)

RouteCall(route, star_id) ==
    CASE route = "get_stars" -> Call(DATABASE_SERVICE_URL, "GET", "/stars/", NoBody)
      [] route = "get_star" -> Call(DATABASE_SERVICE_URL, "GET", "/stars/" \o star_id, NoBody)
      [] route = "delete_star" -> Call(DATABASE_SERVICE_URL, "DELETE", "/stars/" \o star_id, NoBody)
      [] route = "delete_all_stars" -> Call(DATABASE_SERVICE_URL, "DELETE", "/stars", NoBody)
      [] route = "like_star" ->
            Call(DATABASE_SERVICE_URL, "POST", "/stars/" \o star_id \o "/like", NoBody)
      [] route = "dislike_star" ->
            Call(DATABASE_SERVICE_URL, "POST", "/stars/" \o star_id \o "/dislike", NoBody)

\* Mutant of BackendResult: the text of a 200 answer is returned unparsed.
BackendResult_text(resp) ==
    IF resp.status # 200
    THEN HTTPException(resp.status, resp.text)
    ELSE Return(plain(resp.text))

\* Mutant of BackendResult: every backend failure is answered 502.
BackendResult_502(resp) ==
    IF resp.status # 200
    THEN HTTPException(502, resp.text)
    ELSE IF json(resp.text) = JSONDecodeError THEN ServerError ELSE Return(json(resp.text))

\* if resp.status_code != 200: raise HTTPException(...); return resp.json()
BackendResult(resp) ==
    IF resp.status # 200
    THEN HTTPException(resp.status, resp.text)
    ELSE IF json(resp.text) = JSONDecodeError THEN ServerError ELSE Return(json(resp.text))

\* Mutant of Stamp: a Username the client supplied is kept (setdefault).
Stamp_setdefault(star_data, current_user) ==
    IF star_data.Username = Absent
    THEN [star_data EXCEPT !.Username = current_user]
    ELSE star_data

\* star_data["Username"] = current_user
Stamp(star_data, current_user) == [star_data EXCEPT !.Username = current_user]

\* Mutant of is_acceptable: the presence of the status key is tested, not its value.
is_acceptable_present(filter_response) == "status" \in DOMAIN filter_response

\* is_acceptable = filter_response.get("status"), used as a condition.
is_acceptable(filter_response) == truthy(get(filter_response, "status"))

FilterCall(star_data) == Call(FILTER_SERVICE_URL, "POST", "/filter", star_data)
CreateCall(star_data) == Call(DATABASE_SERVICE_URL, "POST", "/stars/", star_data)

\* Mutant of FilterBranch: the payload is forwarded whatever the filter answers.
FilterBranch_forward(resp) ==
    IF json(resp.text) = JSONDecodeError THEN "crash" ELSE "forward"

\* What create_star does with the filter's answer (lines 113-139): "crash" when
\* resp.json() raises in the debugging print, which runs before the status is
\* looked at; "forward" to the data store; "reject" with the filter's body; or
\* "error" with the filter's status.
FilterBranch(resp) ==
    IF json(resp.text) = JSONDecodeError THEN "crash"
    ELSE IF resp.status = 200
         THEN IF is_acceptable(json(resp.text)) THEN "forward" ELSE "reject"
         ELSE "error"

----------------------------------------------------------------------------
\* State: one record per request slot.

IdleReq ==
    [pc |-> "idle", route |-> Absent, header |-> [scheme |-> "none", token |-> NoToken],
     star_data |-> NoBody, sent_data |-> NoBody, star_id |-> Absent, current_user |-> None,
     calls |-> <<>>, resp |-> NoBackendResponse, db_resp |-> NoBackendResponse,
     response |-> NoResponse]

\* A request arrives and is routed.
Arrive(r) ==
    /\ req[r].pc = "idle"
    /\ \E route \in Routes, header \in Headers, body \in StarBodies, id \in StarIds :
         /\ route \notin IdRoutes => id = "1"
         /\ route # "create_star" => body.Username = Absent
         /\ route \in PublicRoutes => header.scheme = "none"
         /\ req' = [req EXCEPT ![r] =
                [IdleReq EXCEPT !.pc = "arrived", !.route = route, !.header = header,
                                !.sent_data = IF route = "create_star" THEN body ELSE NoBody,
                                !.star_data = IF route = "create_star" THEN body ELSE NoBody,
                                !.star_id = IF route \in IdRoutes THEN id ELSE Absent]]
    /\ UNCHANGED <<relay, store>>

\* Depends(get_current_user) is resolved before the handler body runs.
Authenticate(r) ==
    /\ req[r].pc = "arrived"
    /\ LET auth == get_current_user(req[r].header)
       IN  req' = [req EXCEPT ![r] =
                IF req[r].route \in PublicRoutes
                THEN [@ EXCEPT !.pc = "handler"]
                ELSE IF auth.ok
                     THEN [@ EXCEPT !.pc = "handler", !.current_user = auth.email]
                     ELSE [@ EXCEPT !.pc = "done", !.response = auth.error]]
    /\ UNCHANGED <<relay, store>>

\* Mutant of PassThroughCall: the call is issued a second time.
PassThroughCall_twice(r) ==
    /\ req[r].pc = "handler"
    /\ req[r].route \in PassThroughRoutes
    /\ req' = [req EXCEPT ![r] =
            [@ EXCEPT !.pc = "await_db",
                      !.calls = @ \o << RouteCall(req[r].route, req[r].star_id),
                                        RouteCall(req[r].route, req[r].star_id) >>]]
    /\ UNCHANGED <<relay, store>>

\* A pass-through handler issues its single call and awaits the answer.
PassThroughCall(r) ==
    /\ req[r].pc = "handler"
    /\ req[r].route \in PassThroughRoutes
    /\ req' = [req EXCEPT ![r] =
            [@ EXCEPT !.pc = "await_db",
                      !.calls = Append(@, RouteCall(req[r].route, req[r].star_id))]]
    /\ UNCHANGED <<relay, store>>

\* The data store answers a pass-through call.
PassThroughReturn(r) ==
    /\ req[r].pc = "await_db"
    /\ \E resp \in DbResponses :
         req' = [req EXCEPT ![r] =
            [@ EXCEPT !.pc = "done", !.resp = resp, !.response = BackendResult(resp)]]
    /\ UNCHANGED <<relay, store>>

\* Mutant of CreateSendFilter: the identity is kept in one place shared by all
\* requests (the first slot's) instead of the handler's own parameter.
CreateSendFilter_shared(r) ==
    /\ req[r].pc = "handler"
    /\ req[r].route = "create_star"
    /\ LET star_data == Stamp(req[r].star_data, req[1].current_user)
       IN  req' = [req EXCEPT ![r] =
                [@ EXCEPT !.pc = "await_filter", !.star_data = star_data,
                          !.calls = Append(@, FilterCall(star_data))]]
    /\ UNCHANGED <<relay, store>>

\* create_star, lines 105-110: stamp the identity, send the payload to the filter.
CreateSendFilter(r) ==
    /\ req[r].pc = "handler"
    /\ req[r].route = "create_star"
    /\ LET star_data == Stamp(req[r].star_data, req[r].current_user)
       IN  req' = [req EXCEPT ![r] =
                [@ EXCEPT !.pc = "await_filter", !.star_data = star_data,
                          !.calls = Append(@, FilterCall(star_data))]]
    /\ UNCHANGED <<relay, store>>

\* create_star, lines 110-139: the filter answers.
CreateFilterReturn(r) ==
    /\ req[r].pc = "await_filter"
    /\ \E resp \in FilterResponses :
         LET branch == FilterBranch(resp)
         IN  req' = [req EXCEPT ![r] =
                CASE branch = "crash" ->
                        [@ EXCEPT !.pc = "done", !.resp = resp, !.response = ServerError]
                  [] branch = "forward" ->
                        [@ EXCEPT !.pc = "await_create", !.resp = resp,
                                  !.calls = Append(@, CreateCall(req[r].star_data))]
                  [] branch = "reject" ->
                        [@ EXCEPT !.pc = "done", !.resp = resp,
                                  !.response = Return(json(resp.text))]
                  [] branch = "error" ->
                        [@ EXCEPT !.pc = "done", !.resp = resp,
                                  !.response = HTTPException(resp.status, resp.text)]]
    /\ UNCHANGED <<relay, store>>

\* create_star, lines 125-132: the data store answers the create call.
CreateDbReturn(r) ==
    /\ req[r].pc = "await_create"
    /\ \E db_resp \in DbResponses :
         req' = [req EXCEPT ![r] =
            [@ EXCEPT !.pc = "done", !.db_resp = db_resp, !.response = BackendResult(db_resp)]]
    /\ UNCHANGED <<relay, store>>

\* A backend call fails below HTTP (connection refused, no response): httpx
\* raises, nothing catches it.
TransportError(r) ==
    /\ req[r].pc \in {"await_db", "await_filter", "await_create"}
    /\ req' = [req EXCEPT ![r] = [@ EXCEPT !.pc = "done", !.response = ServerError]]
    /\ UNCHANGED <<relay, store>>

\* The response has been sent; the slot serves the next request. Nothing of the
\* finished request is kept.
Finish(r) ==
    /\ req[r].pc = "done"
    /\ req' = [req EXCEPT ![r] = IdleReq]
    /\ UNCHANGED <<relay, store>>

----------------------------------------------------------------------------
\* The stream relay: GET /stars/stream, one event_generator per caller.

\* The i-th line of a backend event stream: event lines, each followed by the
\* blank line that ends the event.
EventLine(i) == IF i % 2 = 1 THEN "data: star " \o ToString((i + 1) \div 2) ELSE ""

\* Mutant of chunk: the line is forwarded without its terminator.
chunk_bare(line) == line

\* yield f"{line}\n"
chunk(line) == line \o "\n"

\* Mutant of Release: only the stream is closed, the client is left open.
Release_stream_only(s) == [s EXCEPT !.stream = FALSE]

\* Leaving both async with blocks: the stream and its client are closed.
Release(s) == [s EXCEPT !.client = FALSE, !.stream = FALSE]

\* await request.is_disconnected()
is_disconnected(s) == s.disconnected

\* Mutant of AfterLine: the caller's connection is not checked.
AfterLine_unchecked(s) == "yield"

\* What the generator does with a line it has read (lines 76-78): stop, or
\* forward it.
AfterLine(s) == IF is_disconnected(s) THEN "break" ELSE "yield"

\* pc: where the generator stands. feed: the lines the backend has emitted on
\* this relay's outbound stream; feed_state: whether the backend still holds it
\* open. nread: lines consumed by aiter_lines. received: what has reached the
\* caller. reads_after: lines read after the caller's disconnect.
IdleRelay ==
    [pc |-> "idle", exit |-> "none", client |-> FALSE, stream |-> FALSE,
     feed |-> <<>>, feed_state |-> "none", nread |-> 0, line |-> Absent,
     received |-> <<>>, disconnected |-> FALSE, reads_after |-> 0]

\* A caller connects; the response starts iterating the generator, which enters
\* async with httpx.AsyncClient(timeout=None).
RelayStart(k) ==
    /\ relay[k].pc = "idle"
    /\ relay' = [relay EXCEPT ![k] = [@ EXCEPT !.pc = "client", !.client = TRUE]]
    /\ UNCHANGED <<req, store>>

\* client.stream("GET", .../events/stars/stream) connects.
StreamOpen(k) ==
    /\ relay[k].pc = "client"
    /\ relay' = [relay EXCEPT ![k] =
            [@ EXCEPT !.pc = "reading", !.stream = TRUE, !.feed_state = "open"]]
    /\ UNCHANGED <<req, store>>

\* client.stream(...) cannot connect: the exception leaves the client's block.
StreamOpenFail(k) ==
    /\ relay[k].pc = "client"
    /\ relay' = [relay EXCEPT ![k] =
            [Release(@) EXCEPT !.pc = "closed", !.exit = "error", !.feed_state = "failed"]]
    /\ UNCHANGED <<req, store>>

\* The backend emits its next line, after any delay.
BackendEmit(k) ==
    /\ relay[k].stream
    /\ relay[k].feed_state = "open"
    /\ Len(relay[k].feed) < MaxLines
    /\ relay' = [relay EXCEPT ![k] =
            [@ EXCEPT !.feed = Append(@, EventLine(Len(relay[k].feed) + 1))]]
    /\ UNCHANGED <<req, store>>

\* The backend ends the stream.
BackendEnd(k) ==
    /\ relay[k].stream
    /\ relay[k].feed_state = "open"
    /\ relay' = [relay EXCEPT ![k] = [@ EXCEPT !.feed_state = "ended"]]
    /\ UNCHANGED <<req, store>>

\* The outbound connection breaks.
BackendFail(k) ==
    /\ relay[k].stream
    /\ relay[k].feed_state = "open"
    /\ relay' = [relay EXCEPT ![k] = [@ EXCEPT !.feed_state = "failed"]]
    /\ UNCHANGED <<req, store>>

\* async for line in r.aiter_lines(): the next line arrives.
ReadLine(k) ==
    /\ relay[k].pc = "reading"
    /\ relay[k].nread < Len(relay[k].feed)
    /\ relay' = [relay EXCEPT ![k] =
            [@ EXCEPT !.pc = "check", !.nread = @ + 1,
                      !.line = relay[k].feed[relay[k].nread + 1],
                      !.reads_after = IF relay[k].disconnected THEN @ + 1 ELSE @]]
    /\ UNCHANGED <<req, store>>

\* aiter_lines() is exhausted: the loop ends, both blocks are left.
ReadEnd(k) ==
    /\ relay[k].pc = "reading"
    /\ relay[k].feed_state = "ended"
    /\ relay[k].nread = Len(relay[k].feed)
    /\ relay' = [relay EXCEPT ![k] = [Release(@) EXCEPT !.pc = "closed", !.exit = "eof"]]
    /\ UNCHANGED <<req, store>>

\* The read raises: the exception leaves both blocks.
ReadError(k) ==
    /\ relay[k].pc = "reading"
    /\ relay[k].feed_state = "failed"
    /\ relay' = [relay EXCEPT ![k] = [Release(@) EXCEPT !.pc = "closed", !.exit = "error"]]
    /\ UNCHANGED <<req, store>>

\* Mutant of CheckDisconnected: one disconnect flag is shared by all relays.
CheckDisconnected_shared(k) ==
    /\ relay[k].pc = "check"
    /\ relay' = [relay EXCEPT ![k] =
            IF \E j \in DOMAIN relay : relay[j].disconnected
            THEN [Release(@) EXCEPT !.pc = "closed", !.exit = "disconnect"]
            ELSE [@ EXCEPT !.pc = "yield"]]
    /\ UNCHANGED <<req, store>>

\* if await request.is_disconnected(): break
CheckDisconnected(k) ==
    /\ relay[k].pc = "check"
    /\ relay' = [relay EXCEPT ![k] =
            IF AfterLine(relay[k]) = "break"
            THEN [Release(@) EXCEPT !.pc = "closed", !.exit = "disconnect"]
            ELSE [@ EXCEPT !.pc = "yield"]]
    /\ UNCHANGED <<req, store>>

\* yield f"{line}\n": the chunk goes to the caller if it is still there, and the
\* generator is resumed for the next line.
Yield(k) ==
    /\ relay[k].pc = "yield"
    /\ relay' = [relay EXCEPT ![k] =
            [@ EXCEPT !.pc = "reading",
                      !.received = IF relay[k].disconnected THEN @
                                   ELSE Append(@, chunk(relay[k].line))]]
    /\ UNCHANGED <<req, store>>

\* The caller goes away.
CallerDisconnect(k) ==
    /\ relay[k].pc \notin {"idle", "closed"}
    /\ ~relay[k].disconnected
    /\ relay' = [relay EXCEPT ![k] = [@ EXCEPT !.disconnected = TRUE]]
    /\ UNCHANGED <<req, store>>

\* StreamingResponse may stop a generator whose caller is gone while it is
\* suspended: the cancellation unwinds both async with blocks.
Cancel(k) ==
    /\ relay[k].pc \in {"client", "reading", "check", "yield"}
    /\ relay[k].disconnected
    /\ relay' = [relay EXCEPT ![k] = [Release(@) EXCEPT !.pc = "closed", !.exit = "cancelled"]]
    /\ UNCHANGED <<req, store>>


----------------------------------------------------------------------------
\* Specifications.

----------------------------------------------------------------------------
\* The data store as the star routes see it: which stars exist, a version that
\* counts its changes, and per star the gateway answers given to GET
\* /stars/{id} since the last change.

\* Number of stars added to the data store from elsewhere.
MaxAdds == 1

InitStore ==
    [exists |-> [i \in StarIds |-> i = "1"], adds |-> 0, version |-> 0,
     seen |-> [i \in StarIds |-> {}]]

\* The data store's answer to a call on /stars/{id}, and its state afterwards.
StoreAnswer(st, call, id) ==
    IF ~st.exists[id] THEN [status |-> 404, text |-> "Star not found"]
    ELSE IF call.method = "GET" THEN [status |-> 200, text |-> "{id:3,message:'hello'}"]
    ELSE [status |-> 200, text |-> "{message:'done'}"]
StoreAfter(st, call, id) ==
    IF st.exists[id] /\ call.method = "DELETE"
    THEN [st EXCEPT !.exists[id] = FALSE, !.version = @ + 1,
                    !.seen = [i \in StarIds |-> {}]]
    ELSE st

\* GET /stars/{id} or DELETE /stars/{id} arrives.
ArriveStar(r) ==
    /\ req[r].pc = "idle"
    /\ \E route \in {"get_star", "delete_star"}, id \in StarIds, sub \in Subjects :
         req' = [req EXCEPT ![r] =
            [IdleReq EXCEPT !.pc = "arrived", !.route = route, !.star_id = id,
                            !.header = IF route = "get_star"
                                       THEN [scheme |-> "none", token |-> NoToken]
                                       ELSE [scheme |-> "Bearer",
                                             token |-> MkToken(SECRET_KEY, "future", sub)]]]
    /\ UNCHANGED <<relay, store>>

\* The data store answers the call of a pass-through route from its state.
StoreReturn(r) ==
    /\ req[r].pc = "await_db"
    /\ LET call == req[r].calls[Len(req[r].calls)]
           id == req[r].star_id
           resp == StoreAnswer(store, call, id)
           response == BackendResult(resp)
           after == StoreAfter(store, call, id)
       IN  /\ req' = [req EXCEPT ![r] =
                    [@ EXCEPT !.pc = "done", !.resp = resp, !.response = response]]
           /\ store' = IF req[r].route = "get_star"
                       THEN [after EXCEPT !.seen[id] = @ \cup {response}]
                       ELSE after
    /\ UNCHANGED relay

\* Somebody else adds a star to the data store.
StoreAdd(id) ==
    /\ ~store.exists[id]
    /\ store.adds < MaxAdds
    /\ store' = [store EXCEPT !.exists[id] = TRUE, !.adds = @ + 1, !.version = @ + 1,
                              !.seen = [i \in StarIds |-> {}]]
    /\ UNCHANGED <<req, relay>>

Init ==
    /\ req = [r \in Reqs |-> IdleReq]
    /\ relay = [k \in Relays |-> IdleRelay]
    /\ store = InitStore

Next ==
    \E r \in Reqs :
        \/ Arrive(r)
        \/ Authenticate(r)
        \/ PassThroughCall(r)
        \/ PassThroughReturn(r)
        \/ CreateSendFilter(r)
        \/ CreateFilterReturn(r)
        \/ CreateDbReturn(r)
        \/ TransportError(r)
        \/ Finish(r)

Spec == Init /\ [][Next]_vars

\* Several create-star requests in flight at once, each from its own caller
\* with its own body.
MaxCreators == 2
Creators == 1..MaxCreators
CallerOf(r) == IF r % 2 = 1 THEN "alice" ELSE "bob"
BodyOf(r) ==
    [Username |-> IF r % 2 = 1 THEN "mallory" ELSE Absent,
     message |-> "star " \o ToString(r)]

\* POST /stars arrives from the caller of slot r.
ArriveCreate(r) ==
    /\ req[r].pc = "idle"
    /\ req' = [req EXCEPT ![r] =
            [IdleReq EXCEPT !.pc = "arrived", !.route = "create_star",
                            !.header = [scheme |-> "Bearer",
                                        token |-> MkToken(SECRET_KEY, "future", CallerOf(r))],
                            !.sent_data = BodyOf(r), !.star_data = BodyOf(r)]]
    /\ UNCHANGED <<relay, store>>

InitCreate ==
    /\ req = [r \in Creators |-> IdleReq]
    /\ relay = [k \in Relays |-> IdleRelay]
    /\ store = InitStore

NextCreate ==
    \E r \in Creators :
        \/ ArriveCreate(r)
        \/ Authenticate(r)
        \/ CreateSendFilter(r)
        \/ CreateFilterReturn(r)
        \/ CreateDbReturn(r)
        \/ TransportError(r)
        \/ Finish(r)

SpecCreate == InitCreate /\ [][NextCreate]_vars

\* Several callers on the stream route at once, each with its own backend
\* stream; the lines of caller k's stream name k.
MaxCallers == 2
MaxCallerLines == 1
Callers == 1..MaxCallers
CallerLine(k) == EventLine(2 * k - 1)

\* The backend emits the next line on the stream opened for caller k.
CallerEmit(k) ==
    /\ relay[k].stream
    /\ relay[k].feed_state = "open"
    /\ Len(relay[k].feed) < MaxCallerLines
    /\ relay' = [relay EXCEPT ![k] = [@ EXCEPT !.feed = Append(@, CallerLine(k))]]
    /\ UNCHANGED <<req, store>>

InitCallers ==
    /\ req = [r \in Reqs |-> IdleReq]
    /\ relay = [k \in Callers |-> IdleRelay]
    /\ store = InitStore

NextCallers ==
    \E k \in Callers :
        \/ RelayStart(k)
        \/ StreamOpen(k)
        \/ CallerEmit(k)
        \/ BackendEnd(k)
        \/ ReadLine(k)
        \/ ReadEnd(k)
        \/ CheckDisconnected(k)
        \/ Yield(k)
        \/ CallerDisconnect(k)

SpecCallers == InitCallers /\ [][NextCallers]_vars

NextStore ==
    \/ \E r \in Reqs :
            \/ ArriveStar(r)
            \/ Authenticate(r)
            \/ PassThroughCall(r)
            \/ StoreReturn(r)
            \/ Finish(r)
    \/ \E id \in StarIds : StoreAdd(id)

SpecStore == Init /\ [][NextStore]_vars


NextRelay ==
    \E k \in Relays :
        \/ RelayStart(k)
        \/ StreamOpen(k)
        \/ StreamOpenFail(k)
        \/ BackendEmit(k)
        \/ BackendEnd(k)
        \/ BackendFail(k)
        \/ ReadLine(k)
        \/ ReadEnd(k)
        \/ ReadError(k)
        \/ CheckDisconnected(k)
        \/ Yield(k)
        \/ CallerDisconnect(k)
        \/ Cancel(k)

SpecRelay == Init /\ [][NextRelay]_vars

\* The generator's own steps: the event loop runs a coroutine that can proceed.
\* The backend owes no line, and nothing in main.py makes the framework cancel.
GeneratorStep(k) ==
    \/ StreamOpen(k)
    \/ ReadLine(k)
    \/ ReadEnd(k)
    \/ ReadError(k)
    \/ CheckDisconnected(k)
    \/ Yield(k)

SpecRelayFair == SpecRelay /\ \A k \in Relays : WF_vars(GeneratorStep(k))

----------------------------------------------------------------------------
\* Properties.

\* Helpers of the properties.
IsCreate(r) == req[r].route = "create_star"
FilterAnswered(r) == req[r].resp # NoBackendResponse
DbAnswered(r) == req[r].db_resp # NoBackendResponse
SvcCalls(r, svc) == {i \in 1..Len(req[r].calls) : req[r].calls[i].svc = svc}
VerdictOf(r) == get(json(req[r].resp.text), "status")

\* A bearer token that is well-formed, signed with the shared secret by the fixed
\* algorithm, not expired and carrying a subject.
ValidBearer(header) ==
    /\ header.scheme = "Bearer"
    /\ header.token.wellformed
    /\ header.token.alg = "HS256"
    /\ header.token.key = SECRET_KEY
    /\ header.token.exp \in {"none", "future"}
    /\ header.token.sub \in Subjects

\* C1: on every protected route a request whose bearer token is missing or
\* invalid is answered 401, and no backend call is made for it.
C1_UnauthorizedBeforeBackend ==
    \A r \in Reqs :
        (req[r].route \in ProtectedRoutes /\ ~ValidBearer(req[r].header)) =>
            /\ req[r].calls = <<>>
            /\ req[r].pc \in {"arrived", "done"}
            /\ req[r].pc = "done" => req[r].response.status = 401

C1_Witness ==
    \E r \in Reqs :
        /\ req[r].route = "delete_all_stars"
        /\ req[r].header.scheme = "Bearer"
        /\ req[r].header.token.exp = "past"
        /\ req[r].pc = "done"
        /\ req[r].response.status = 401
        /\ req[r].calls = <<>>

\* C2: in the create route the data-store create call is issued if and only if
\* the moderation call for the same payload has returned an acceptable verdict
\* (200 with a true status), and never without a preceding moderation call.
C2_PersistIffAccepted ==
    \A r \in Reqs :
        IsCreate(r) =>
            /\ (SvcCalls(r, DATABASE_SERVICE_URL) # {}) <=>
                    (FilterAnswered(r) /\ req[r].resp.status = 200 /\ truthy(VerdictOf(r)))
            /\ \A i \in SvcCalls(r, DATABASE_SERVICE_URL) :
                    /\ i = 2
                    /\ req[r].calls[1].svc = FILTER_SERVICE_URL
                    /\ req[r].calls[1].payload = req[r].calls[i].payload

C2_Witness ==
    \E r \in Reqs :
        /\ IsCreate(r)
        /\ req[r].pc = "done"
        /\ req[r].resp.status = 200
        /\ VerdictOf(r) = "true"
        /\ SvcCalls(r, DATABASE_SERVICE_URL) = {2}

\* C3: create with a valid token and a moderation answer of 200 with status true:
\* exactly two backend calls, moderation first and data-store create second, and
\* when the data store answers 200 the gateway answers 200 with the data store's
\* body.
C3_AcceptedCreate ==
    \A r \in Reqs :
        (IsCreate(r) /\ FilterAnswered(r) /\ req[r].resp.status = 200 /\ VerdictOf(r) = "true") =>
            /\ Len(req[r].calls) = 2
            /\ req[r].calls[1] = Call(FILTER_SERVICE_URL, "POST", "/filter", req[r].star_data)
            /\ req[r].calls[2] = Call(DATABASE_SERVICE_URL, "POST", "/stars/", req[r].star_data)
            /\ (DbAnswered(r) /\ req[r].db_resp.status = 200) =>
                    /\ req[r].pc = "done"
                    /\ req[r].response.status = 200
                    /\ req[r].response.body = wire(req[r].db_resp.text)

C3_Witness ==
    \E r \in Reqs :
        /\ IsCreate(r)
        /\ VerdictOf(r) = "true"
        /\ req[r].db_resp = [status |-> 200, text |-> "{id:3,message:'hello'}"]
        /\ req[r].pc = "done"
        /\ req[r].response.status = 200
        /\ req[r].response.body = [id |-> "3", message |-> "'hello'"]

\* C4: create with a valid token and a moderation answer of 200 with status
\* false: the moderation call is the only backend call, the data store is never
\* contacted, and the gateway answers 200 with the moderation body, message
\* included.
C4_RejectedCreate ==
    \A r \in Reqs :
        (IsCreate(r) /\ FilterAnswered(r) /\ req[r].resp.status = 200 /\ VerdictOf(r) = "false") =>
            /\ req[r].pc = "done"
            /\ req[r].calls = <<Call(FILTER_SERVICE_URL, "POST", "/filter", req[r].star_data)>>
            /\ SvcCalls(r, DATABASE_SERVICE_URL) = {}
            /\ req[r].response.status = 200
            /\ req[r].response.body = wire(req[r].resp.text)
            /\ req[r].response.body.message = "'rejected'"

C4_Witness ==
    \E r \in Reqs :
        /\ IsCreate(r)
        /\ req[r].pc = "done"
        /\ req[r].resp = [status |-> 200, text |-> "{status:false,message:'rejected'}"]
        /\ Len(req[r].calls) = 1
        /\ req[r].response = Return([status |-> "false", message |-> "'rejected'"])

\* C5: in the create route the payload's identity field is the subject of the
\* verified token before any backend call: the payloads sent to the moderation
\* service and to the data store carry the token's subject, whatever identity the
\* client wrote into the body, and the rest of the body as the client sent it.
C5_IdentityFromToken ==
    \A r \in Reqs :
        IsCreate(r) =>
            \A i \in 1..Len(req[r].calls) :
                /\ req[r].calls[i].payload.Username = req[r].header.token.sub
                /\ req[r].calls[i].payload.Username \in Subjects
                /\ req[r].calls[i].payload.message = req[r].sent_data.message

C5_Witness ==
    \E r \in Reqs :
        /\ IsCreate(r)
        /\ req[r].sent_data.Username = "mallory"
        /\ req[r].header.token.sub = "bob"
        /\ Len(req[r].calls) = 2
        /\ req[r].calls[1].payload.Username = "bob"
        /\ req[r].calls[2].payload.Username = "bob"

C7_FilterErrorPropagated ==
    \A r \in Reqs :
        (IsCreate(r) /\ FilterAnswered(r) /\ req[r].resp.status # 200) =>
            /\ req[r].pc = "done"
            /\ SvcCalls(r, DATABASE_SERVICE_URL) = {}
            /\ req[r].response.status = req[r].resp.status
            /\ req[r].response.body = [detail |-> req[r].resp.text]

\* The stream relay.

\* The first n lines of relay k's backend stream, each with its terminator.
Terminated(k, n) == [i \in 1..n |-> relay[k].feed[i] \o "\n"]
\* Lines the generator has finished with (forwarded, or dropped at the check).
Passed(k) == relay[k].nread - (IF relay[k].pc \in {"check", "yield"} THEN 1 ELSE 0)

\* C8: the caller receives the backend's lines in order, each followed by one
\* newline, none dropped, duplicated, merged or split: what it has received is
\* always a prefix of the emitted lines, while it stays connected it has
\* received every line the relay has finished with, and at the backend's end of
\* data it has received them all.
C8_LinesRelayedInOrder ==
    \A k \in Relays :
        /\ Len(relay[k].received) <= Len(relay[k].feed)
        /\ relay[k].received = Terminated(k, Len(relay[k].received))
        /\ ~relay[k].disconnected => Len(relay[k].received) = Passed(k)
        /\ (~relay[k].disconnected /\ relay[k].exit = "eof") =>
                relay[k].received = Terminated(k, Len(relay[k].feed))

C8_Witness ==
    \E k \in Relays :
        /\ ~relay[k].disconnected
        /\ relay[k].exit = "eof"
        /\ relay[k].received = <<"data: star 1\n", "\n", "data: star 2\n">>

\* C9 as stated: once the caller has disconnected after receiving a line, no
\* further line is read from the backend stream.
C9_Original ==
    \A k \in Relays :
        (relay[k].disconnected /\ Len(relay[k].received) >= 1) => relay[k].reads_after = 0

\* C9 as amended: once the caller has disconnected, at most one further line is
\* read from the backend stream (the read that was pending), that line is not
\* forwarded, and the relay stops at the check that follows it.
C9_AtMostOneReadAfterDisconnect ==
    \A k \in Relays :
        /\ relay[k].reads_after <= 1
        /\ relay[k].reads_after = 1 =>
                /\ relay[k].pc \in {"check", "closed"}
                /\ Len(relay[k].received) < relay[k].nread

C9_Witness ==
    \E k \in Relays :
        /\ relay[k].disconnected
        /\ relay[k].received = <<"data: star 1\n">>
        /\ relay[k].reads_after = 1
        /\ relay[k].exit = "disconnect"

\* C10: on every exit path of the relay (end of data, caller disconnect
\* observed, backend connection error) the outbound stream and its client are
\* released; no terminated relay holds an open outbound connection.
C10_ReleasedOnEveryExit ==
    \A k \in Relays :
        /\ relay[k].pc = "closed" =>
                /\ relay[k].exit \in {"eof", "disconnect", "error", "cancelled"}
                /\ ~relay[k].stream
                /\ ~relay[k].client
        /\ relay[k].stream => relay[k].client

C10_Witness ==
    \E k \in Relays :
        /\ relay[k].pc = "closed"
        /\ relay[k].exit = "disconnect"
        /\ relay[k].nread >= 1
        /\ ~relay[k].stream
        /\ ~relay[k].client

\* The request routes, continued.

\* The last backend call of request r got no answer (connection refused, no
\* response) and the request is over.
TransportFailed(r) ==
    /\ req[r].pc = "done"
    /\ \/ Len(req[r].calls) = 1 /\ ~FilterAnswered(r)
       \/ Len(req[r].calls) = 2 /\ ~DbAnswered(r)

\* The answers the backends gave to request r.
Answers(r) == {req[r].resp, req[r].db_resp} \ {NoBackendResponse}

\* C11: on every route a backend answer with any status other than 200 (other
\* 2xx, 4xx, 5xx) is never turned into a success: the gateway answers with that
\* backend status and carries that backend body.
C11_OnlyExactly200Succeeds ==
    \A r \in Reqs :
        \A a \in Answers(r) :
            a.status # 200 =>
                /\ req[r].pc = "done"
                /\ req[r].response.status = a.status
                /\ req[r].response.body = [detail |-> a.text]

\* C12: token verification yields the token's subject exactly when the token is
\* well-formed, correctly signed, not expired and carries a subject; in every
\* other case (malformed, bad signature, expired, no subject, no Authorization
\* header) the answer is 401 with a WWW-Authenticate: Bearer header.
C12_SubjectOrChallenge ==
    \A r \in Reqs :
        (req[r].route \in ProtectedRoutes /\ req[r].pc # "arrived") =>
            IF ValidBearer(req[r].header)
            THEN /\ req[r].current_user = req[r].header.token.sub
                 /\ ~req[r].response.challenge
            ELSE /\ req[r].pc = "done"
                 /\ req[r].current_user = None
                 /\ req[r].response.status = 401
                 /\ req[r].response.challenge

C12_Witness ==
    \E r \in Reqs :
        /\ req[r].route = "like_star"
        /\ req[r].header.scheme = "Bearer"
        /\ req[r].header.token.sub = Absent
        /\ req[r].header.token.key = SECRET_KEY
        /\ req[r].pc = "done"
        /\ req[r].response = credentials_exception

\* The method of each pass-through route's data-store call (route table).
RouteMethod(route) ==
    CASE route \in {"get_stars", "get_star"} -> "GET"
      [] route \in {"delete_star", "delete_all_stars"} -> "DELETE"
      [] route \in {"like_star", "dislike_star"} -> "POST"

\* C14: a pass-through route issues exactly one backend call per accepted
\* request, to the data store with the route table's method, and never issues it
\* again, also after the call has failed; the create route issues each of its two
\* calls at most once.
C14_NoRetry ==
    \A r \in Reqs :
        /\ (req[r].route \in PassThroughRoutes /\ req[r].pc \in {"await_db", "done"}
                /\ ~req[r].response.challenge) =>
                /\ Len(req[r].calls) = 1
                /\ req[r].calls[1].svc = DATABASE_SERVICE_URL
                /\ req[r].calls[1].method = RouteMethod(req[r].route)
        /\ IsCreate(r) =>
                /\ Cardinality(SvcCalls(r, FILTER_SERVICE_URL)) <= 1
                /\ Cardinality(SvcCalls(r, DATABASE_SERVICE_URL)) <= 1

C14_Witness ==
    \E r \in Reqs :
        /\ req[r].route = "like_star"
        /\ req[r].pc = "done"
        /\ req[r].resp.status = 503
        /\ Len(req[r].calls) = 1
        /\ req[r].calls[1].method = "POST"

\* C16: a backend call that fails at the transport level is answered with a
\* synthesized 502-class backend error, not with an unhandled failure.
C16_TransportFailureIs502 ==
    \A r \in Reqs :
        TransportFailed(r) =>
            /\ req[r].response.status \in {502, 503, 504}
            /\ req[r].response # ServerError

\* C19: in the create route a 200 moderation answer without a status field, or
\* with a falsy status, is a rejection (no data-store call, the moderation body
\* returned with 200); only a truthy status leads to the create call.
C19_MissingOrFalsyStatusRejects ==
    \A r \in Reqs :
        (IsCreate(r) /\ FilterAnswered(r) /\ req[r].resp.status = 200) =>
            IF "status" \notin DOMAIN json(req[r].resp.text)
                    \/ json(req[r].resp.text).status \in {"false", "0", "null", "''"}
            THEN /\ req[r].pc = "done"
                 /\ Len(req[r].calls) = 1
                 /\ req[r].response = Return(json(req[r].resp.text))
            ELSE /\ Len(req[r].calls) = 2
                 /\ req[r].calls[2].svc = DATABASE_SERVICE_URL

C19_Witness ==
    \E r \in Reqs :
        /\ IsCreate(r)
        /\ req[r].resp = [status |-> 200, text |-> "{message:'no verdict'}"]
        /\ req[r].pc = "done"
        /\ req[r].calls = <<FilterCall(req[r].star_data)>>
        /\ req[r].response = Return([message |-> "'no verdict'"])

\* C15: after the caller of the stream route has disconnected, the relay
\* eventually stops reading and releases the outbound connection, also when the
\* backend stream stays idle and emits no further line.
C15_ReleasedAfterDisconnect ==
    \A k \in Relays :
        relay[k].disconnected ~>
            (relay[k].pc = "closed" /\ ~relay[k].stream /\ ~relay[k].client)

\* C13: GET /stars/{id} issued twice for the same id while the backend state
\* does not change in between is answered with the same status and body both
\* times: all answers given for an id since the data store last changed are one
\* and the same.
C13_GetStarRepeatable ==
    \A i \in StarIds : Cardinality(store.seen[i]) <= 1

C13_Witness ==
    \E r \in Reqs :
        /\ req[r].route = "get_star"
        /\ req[r].pc = "handler"
        /\ req[r].star_id = "999"
        /\ store.seen["999"] = {HTTPException(404, "Star not found")}
        /\ store.seen["1"] = {Return([id |-> "3", message |-> "'hello'"])}

\* What create_star answers, as a function of the answers to the calls of
\* request r alone.
OwnOutcome(r) ==
    IF ~FilterAnswered(r) THEN ServerError
    ELSE CASE FilterBranch(req[r].resp) = "crash" -> ServerError
           [] FilterBranch(req[r].resp) = "error" ->
                    HTTPException(req[r].resp.status, req[r].resp.text)
           [] FilterBranch(req[r].resp) = "reject" -> Return(json(req[r].resp.text))
           [] FilterBranch(req[r].resp) = "forward" ->
                    IF DbAnswered(r) THEN BackendResult(req[r].db_resp) ELSE ServerError

\* C17: when several create-star requests of different callers interleave at
\* their backend calls, every payload a request sends to the filter and to the
\* data store carries that request's own token identity and own body, and its
\* response is the one its own backend answers determine.
C17_RequestsIsolated ==
    \A r \in Creators :
        /\ \A i \in 1..Len(req[r].calls) :
                /\ req[r].calls[i].payload.Username = CallerOf(r)
                /\ req[r].calls[i].payload.message = BodyOf(r).message
        /\ req[r].pc = "done" => req[r].response = OwnOutcome(r)

C17_Witness ==
    /\ req[1].pc = "done"
    /\ FilterBranch(req[1].resp) = "reject"
    /\ req[1].calls = << FilterCall([Username |-> "alice", message |-> "star 1"]) >>
    /\ req[2].pc = "await_create"
    /\ req[2].calls[2] = CreateCall([Username |-> "bob", message |-> "star 2"])

\* The relays that serve a caller connection, and the open outbound streams.
ActiveRelays == {k \in Callers : relay[k].pc \notin {"idle", "closed"}}
OpenStreams == {k \in Callers : relay[k].stream}

\* C18: every caller connection on the stream route has one outbound stream of
\* its own: there are never more open outbound streams than active relays, what
\* a caller receives are the lines of its own relay's stream in order, and a
\* relay that stopped on a disconnect stopped on its own caller's.
C18_OneStreamPerCaller ==
    /\ Cardinality(OpenStreams) <= Cardinality(ActiveRelays)
    /\ \A k \in Callers :
        /\ relay[k].stream => k \in ActiveRelays
        /\ Len(relay[k].received) <= Len(relay[k].feed)
        /\ \A i \in 1..Len(relay[k].received) :
                /\ relay[k].received[i] = chunk(relay[k].feed[i])
                /\ relay[k].received[i] = chunk(CallerLine(k))
        /\ relay[k].exit = "disconnect" => relay[k].disconnected

C18_Witness ==
    /\ relay[1].pc = "closed"
    /\ relay[1].exit = "disconnect"
    /\ relay[1].received = <<>>
    /\ relay[2].pc = "reading"
    /\ relay[2].stream
    /\ ~relay[2].disconnected
    /\ relay[2].received = << "data: star 2\n" >>

====
